---- MODULE Spec2Model ----
(***************************************************************************)
(* Model of setup.py: the bdist_wheel_repaired command (build a wheel,     *)
(* repair it with the platform's tool, add the licenses of the bundled     *)
(* libraries, replace the unrepaired wheel) and of the attribution of      *)
(* bundled files to conda packages in write_licenses / try_unmangle.       *)
(*                                                                         *)
(* Strings are sequences of one-character strings, so that the regular     *)
(* expressions, os.path.basename and Python's string ordering are computed *)
(* character by character as the code computes them.                       *)
(***************************************************************************)
EXTENDS Integers, Sequences, FiniteSets, TLC

VARIABLES
    pc,            \* position in bdist_wheel_repaired.run
    catalog,       \* the conda-meta/*.json manifests: name -> set of installed paths
    system,        \* platform.system()
    dist_files,    \* self.distribution.dist_files: sequence of wheel paths
    dist_dir,      \* wheels present in self.dist_dir: name -> set of member files
    out_dir,       \* dist_dir/repaired: "absent", or name -> set of member files
    added_files,   \* repaired_whl_files - bad_whl_files
    licenses_txt,  \* LICENSES_bundled.txt in the working directory: "absent" or its lines
    bundled_pkgs,  \* write_licenses: packages the added files were attributed to
    not_found,     \* write_licenses: added files attributed to no package
    error,         \* the exception that ended run, or "none"
    n,             \* try_unmangle: the name it is applied to
    u,             \* try_unmangle(n)
    uu,            \* try_unmangle(u) when u is a name
    upc            \* position of the try_unmangle exercise

vars == <<pc, catalog, system, dist_files, dist_dir, out_dir, added_files,
          licenses_txt, bundled_pkgs, not_found, error, n, u, uu, upc>>

runVars == <<pc, catalog, system, dist_files, dist_dir, out_dir, added_files,
             licenses_txt, bundled_pkgs, not_found, error>>

unmangleVars == <<n, u, uu, upc>>

-----------------------------------------------------------------------------
(* Characters and strings *)

HexChars == {"0", "1", "2", "3", "4", "5", "6", "7", "8", "9",
             "a", "b", "c", "d", "e", "f", "A", "B", "C", "D", "E", "F"}

\* The character class [0-9A-Za-z] in place of [0-9A-Fa-f].
IsAlnum(c) == c \in HexChars \cup {"g", "G"}

\* The character class [0-9A-Fa-f] of both patterns.
IsHex(c) == c \in HexChars

\* Code points of the characters the model's strings are made of.
Ord(c) ==
    CASE c = "-" -> 45 [] c = "." -> 46 [] c = "/" -> 47 [] c = "5" -> 53
      [] c = "a" -> 97 [] c = "b" -> 98 [] c = "c" -> 99 [] c = "d" -> 100
      [] c = "e" -> 101 [] c = "f" -> 102 [] c = "g" -> 103 [] c = "h" -> 104
      [] c = "i" -> 105 [] c = "k" -> 107 [] c = "l" -> 108 [] c = "o" -> 111
      [] c = "p" -> 112 [] c = "s" -> 115 [] c = "t" -> 116 [] c = "v" -> 118
      [] c = "x" -> 120

\* Python's s < t on strings: by code point, a proper prefix first.
StrLess(s, t) ==
    \E k \in 1..(Len(s) + 1) :
        /\ \A j \in 1..(k - 1) : j <= Len(t) /\ s[j] = t[j]
        /\ \/ k = Len(s) + 1 /\ Len(t) >= k
           \/ k <= Len(s) /\ k <= Len(t) /\ Ord(s[k]) < Ord(t[k])

StrSetMin(S) == CHOOSE x \in S : \A y \in S \ {x} : StrLess(x, y)

StrSetMax(S) == CHOOSE x \in S : \A y \in S \ {x} : StrLess(y, x)

\* sorted(S, reverse=True)
RECURSIVE sorted_reverse(_)
sorted_reverse(S) ==
    IF S = {} THEN <<>>
    ELSE LET m == StrSetMax(S) IN <<m>> \o sorted_reverse(S \ {m})

\* sorted(S) for a collection S of distinct strings.
RECURSIVE sorted(_)
sorted(S) ==
    IF S = {} THEN <<>>
    ELSE LET m == StrSetMin(S) IN <<m>> \o sorted(S \ {m})

\* set(l) for a list l.
ToSet(l) == { l[k] : k \in 1..Len(l) }

Max(S) == CHOOSE x \in S : \A y \in S : y <= x

Min(S) == CHOOSE x \in S : \A y \in S : x <= y

\* The value of a Python None.
None == <<"None">>

-----------------------------------------------------------------------------
(* try_unmangle *)

HexMin == 8

DotDll == <<".", "d", "l", "l">>

\* re.match("^(.+)-[0-9A-Fa-f]{8,}([.]dll)$", n): the ends i of a group 1
\* n[1..i] for which the rest of the pattern matches the rest of n.
DllGroup1Ends(s) ==
    { i \in 1..Len(s) :
        /\ Len(s) >= i + 1 + HexMin + Len(DotDll)
        /\ s[i + 1] = "-"
        /\ SubSeq(s, Len(s) - Len(DotDll) + 1, Len(s)) = DotDll
        /\ \A k \in (i + 2)..(Len(s) - Len(DotDll)) : IsHex(s[k])
        /\ \A k \in 1..i : s[k] # "\n" }

\* unmangle_dll returning m.group(1) alone, the extension lost.
unmangle_dll_group1(s) ==
    LET ends == DllGroup1Ends(s)
    IN  IF ends = {} THEN None ELSE SubSeq(s, 1, Max(ends))

\* The first branch of try_unmangle; ".+" is greedy, so group 1 is the longest.
unmangle_dll(s) ==
    LET ends == DllGroup1Ends(s)
    IN  IF ends = {} THEN None ELSE SubSeq(s, 1, Max(ends)) \o DotDll

\* Position of the first "." of s, 0 when it has none.
FirstDot(s) ==
    LET dots == { k \in 1..Len(s) : s[k] = "." }
    IN  IF dots = {} THEN 0 ELSE Min(dots)

\* re.match("^([^.]+)-[0-9A-Fa-f]{8,}([.].+)$", n): the ends i of a group 1
\* n[1..i] for which the rest of the pattern matches.  Neither group 1 nor the
\* run of hexadecimal characters holds a ".", so the "[.]" that opens group 2
\* is the first "." of n, at d, and the run is n[i+2..d-1].
GenericGroup1Ends(s) ==
    LET d == FirstDot(s)
    IN  { i \in 1..Len(s) :
            /\ d >= i + 2 + HexMin
            /\ Len(s) >= d + 1
            /\ s[i + 1] = "-"
            /\ \A k \in (i + 2)..(d - 1) : IsHex(s[k])
            /\ \A k \in (d + 1)..Len(s) : s[k] # "\n" }

\* unmangle_generic returning m.group(1) alone, group 2 lost.
unmangle_generic_group1(s) ==
    LET ends == GenericGroup1Ends(s)
    IN  IF ends = {} THEN None ELSE SubSeq(s, 1, Max(ends))

\* The second branch of try_unmangle; "[^.]+" is greedy, so group 1 is the longest.
unmangle_generic(s) ==
    LET ends == GenericGroup1Ends(s)
    IN  IF ends = {} THEN None
        ELSE SubSeq(s, 1, Max(ends)) \o SubSeq(s, FirstDot(s), Len(s))

\* try_unmangle with the two patterns tried in the other order.
try_unmangle_generic_first(s) ==
    LET m == unmangle_generic(s)
    IN  IF m # None THEN m ELSE unmangle_dll(s)

\* try_unmangle: the delvewheel pattern first, then the auditwheel pattern;
\* None when neither matches.
try_unmangle(s) ==
    LET m == unmangle_dll(s)
    IN  IF m # None THEN m ELSE unmangle_generic(s)

-----------------------------------------------------------------------------
(* The names try_unmangle is exercised on: concatenations of chunks.  They  *)
(* are file names without line breaks; "a" is a hexadecimal character and   *)
(* "g" is not, Hash7 is one character short of a hash fragment.             *)

MaxChunks == 5

Hash7 == <<"-", "d", "e", "a", "d", "b", "e", "e">>

Hash8 == <<"-", "d", "e", "a", "d", "b", "e", "e", "f">>

Chunks == {<<"a">>, <<"g">>, <<"-">>, <<".">>, Hash7, Hash8, DotDll}

RECURSIVE NamesUpTo(_)
NamesUpTo(k) ==
    IF k = 0 THEN {<<>>}
    ELSE LET P == NamesUpTo(k - 1)
         IN  P \cup { p \o c : p \in P, c \in Chunks }

Names == NamesUpTo(MaxChunks) \ {<<>>}

InitUnmangle ==
    /\ n \in Names
    /\ u = None
    /\ uu = None
    /\ upc = "start"

\* u = try_unmangle(n)
Unmangle ==
    /\ upc = "start"
    /\ u' = try_unmangle(n)
    /\ upc' = "unmangled"
    /\ UNCHANGED <<n, uu>>

\* A second application, to the name the first one returned.
UnmangleAgain ==
    /\ upc = "unmangled"
    /\ u # None
    /\ uu' = try_unmangle(u)
    /\ upc' = "again"
    /\ UNCHANGED <<n, u>>

-----------------------------------------------------------------------------
(* The conda environment: package manifests and license files *)

PkgHdf5 == <<"h", "d", "f", "5">>

PkgOcp == <<"o", "c", "p">>

PkgVtk == <<"v", "t", "k">>

\* m["url"]
Url(name) ==
    CASE name = PkgOcp -> "https://conda.anaconda.org/ocp"
      [] name = PkgVtk -> "https://conda.anaconda.org/vtk"
      [] OTHER -> "https://conda.anaconda.org/hdf5"

\* m.get("license", "unknown"): the hdf5 manifest has no "license" key.
License(name) ==
    CASE name = PkgOcp -> "Apache-2.0"
      [] name = PkgVtk -> "BSD-3-Clause"
      [] OTHER -> "unknown"

\* The files the two glob patterns find under extracted_package_dir, as paths
\* relative to it (the absolute paths share that prefix, so sort alike).
LicenseGlob(name) ==
    CASE name = PkgOcp -> {<<"i", "/", "l">>}
      [] name = PkgVtk -> {<<"s", "/", "l">>, <<"i", "/", "l">>, <<"i", "/", "c">>}
      [] OTHER -> {}

\* json.load of one conda-meta/*.json file.
Manifest(cat, name) ==
    [name |-> name, url |-> Url(name), license |-> License(name), files |-> cat[name]]

-----------------------------------------------------------------------------
(* write_licenses *)

\* os.path.basename
basename(p) ==
    LET slashes == { k \in 1..Len(p) : p[k] = "/" }
    IN  IF slashes = {} THEN p ELSE SubSeq(p, Max(slashes) + 1, Len(p))

\* One line of the report.
Line(text, arg, pkg, file, i, cnt) ==
    [text |-> text, arg |-> arg, pkg |-> pkg, file |-> file, i |-> i, cnt |-> cnt]

\* AddManifest with name_to_pkgs[basename(p)] = {name} in place of
\* setdefault(...).add(name).
AddManifest_overwrite(maps, meta) ==
    LET bases == { basename(p) : p \in meta.files }
        old == maps.name_to_pkgs
    IN  [pkgs |-> [k \in DOMAIN maps.pkgs \cup {meta.name} |->
                      IF k = meta.name THEN meta ELSE maps.pkgs[k]],
         name_to_pkgs |-> [b \in DOMAIN old \cup bases |->
                      IF b \in bases THEN {meta.name} ELSE old[b]]]

\* The body of the first loop for one manifest: pkgs[name] = meta, and
\* name_to_pkgs.setdefault(basename(p), set()).add(name) for each file p.
AddManifest(maps, meta) ==
    LET bases == { basename(p) : p \in meta.files }
        old == maps.name_to_pkgs
    IN  [pkgs |-> [k \in DOMAIN maps.pkgs \cup {meta.name} |->
                      IF k = meta.name THEN meta ELSE maps.pkgs[k]],
         name_to_pkgs |-> [b \in DOMAIN old \cup bases |->
                      (IF b \in DOMAIN old THEN old[b] ELSE {})
                          \cup (IF b \in bases THEN {meta.name} ELSE {})]]

\* The first loop, over the manifests in the order glob.glob lists them.
RECURSIVE Populate(_, _, _)
Populate(cat, metas, maps) ==
    IF metas = <<>> THEN maps
    ELSE Populate(cat, Tail(metas), AddManifest(maps, Manifest(cat, Head(metas))))

\* The body of the second loop for one added file.
AttributeFile(name_to_pkgs, acc, fn) ==
    LET nm == basename(fn)
        un == try_unmangle(nm)
    IN  IF nm \in DOMAIN name_to_pkgs
        THEN [acc EXCEPT !.bundled = @ \cup name_to_pkgs[nm]]
        ELSE IF un # None /\ un # <<>> /\ un \in DOMAIN name_to_pkgs
        THEN [acc EXCEPT !.bundled = @ \cup name_to_pkgs[un]]
        ELSE [acc EXCEPT !.not_found = Append(@, fn)]

\* Attribute leaving the loop at the first file it cannot attribute.
RECURSIVE Attribute_stop(_, _, _)
Attribute_stop(name_to_pkgs, files, acc) ==
    IF files = <<>> \/ acc.not_found # <<>> THEN acc
    ELSE Attribute_stop(name_to_pkgs, Tail(files),
                        AttributeFile(name_to_pkgs, acc, Head(files)))

\* The second loop, over sorted(added_files).
RECURSIVE Attribute(_, _, _)
Attribute(name_to_pkgs, files, acc) ==
    IF files = <<>> THEN acc
    ELSE Attribute(name_to_pkgs, Tail(files), AttributeFile(name_to_pkgs, acc, Head(files)))

\* The lines printed for the license files of one package, from the i-th on.
RECURSIVE LicenseLines(_, _, _)
LicenseLines(m, licenses, i) ==
    IF i > Len(licenses) THEN <<>>
    ELSE << Line("Contents of ",
                 IF Len(licenses) > 1 THEN "i of cnt license files"
                 ELSE "the only license file",
                 m.name, licenses[i], i, Len(licenses)),
            Line("> ", "lines of the file", m.name, licenses[i], i, Len(licenses)) >>
         \o LicenseLines(m, licenses, i + 1)

\* The body of the third loop for one package whose manifest is m.
Section(m) ==
    << Line("", "", m.name, <<>>, 0, 0),
       Line("Conda package: ", "name", m.name, <<>>, 0, 0),
       Line("Download url: ", m.url, m.name, <<>>, 0, 0),
       Line("License: ", m.license, m.name, <<>>, 0, 0) >>
    \o LicenseLines(m, sorted(LicenseGlob(m.name)), 1)

\* The third loop, over the sorted package names: pkgs[n] raises KeyError for
\* a name that has no manifest, after the sections before it were printed.
RECURSIVE WriteSections(_, _, _)
WriteSections(pkgs, names, out) ==
    IF names = <<>> THEN [out |-> out, raised |-> "none"]
    ELSE IF Head(names) \notin DOMAIN pkgs THEN [out |-> out, raised |-> "KeyError"]
    ELSE WriteSections(pkgs, Tail(names), out \o Section(pkgs[Head(names)]))

NoMaps == [pkgs |-> <<>>, name_to_pkgs |-> <<>>]

\* write_licenses with the third loop over sorted(bundled_pkgs) alone.
write_licenses_bundled_only(cat, metas, always, added, out) ==
    LET maps == Populate(cat, metas, NoMaps)
        att == Attribute(maps.name_to_pkgs, sorted(added),
                         [bundled |-> {}, not_found |-> <<>>])
        rep == WriteSections(maps.pkgs, sorted(att.bundled), out)
    IN  [out |-> rep.out, raised |-> rep.raised,
         bundled_pkgs |-> sorted(att.bundled), not_found |-> att.not_found]

\* write_licenses(prefix, whl, always_pkgs, added_files, out): metas is the
\* order in which glob.glob lists the manifests of the catalog, out the lines
\* already written to the file.
write_licenses(cat, metas, always, added, out) ==
    LET maps == Populate(cat, metas, NoMaps)
        att == Attribute(maps.name_to_pkgs, sorted(added),
                         [bundled |-> {}, not_found |-> <<>>])
        rep == WriteSections(maps.pkgs, sorted(ToSet(always) \cup att.bundled), out)
    IN  [out |-> rep.out, raised |-> rep.raised,
         bundled_pkgs |-> sorted(att.bundled), not_found |-> att.not_found]

-----------------------------------------------------------------------------
(* The inputs: the catalog, the platform and what the repair tool bundles *)

MaxInstalled == 2

MaxAdded == 2

PkgNames == {PkgHdf5, PkgOcp, PkgVtk}

\* Installed files of the catalog: "l/a.g", "a.dll", "a.-deadbeef.dll", "a."
CatalogPaths ==
    { <<"l", "/", "a", ".", "g">>,
      <<"a">> \o DotDll,
      <<"a", ".">> \o Hash8 \o DotDll,
      <<"a", ".">> }

\* Files a repair tool adds: "x/a.g", "x/a-deadbeef.g", "a-deadbeef.dll",
\* "a-deadbeef.-deadbeef.dll", "a-deadbeef.", "g.g"
AddedPaths ==
    { <<"x", "/", "a", ".", "g">>,
      <<"x", "/", "a">> \o Hash8 \o <<".", "g">>,
      <<"a">> \o Hash8 \o DotDll,
      <<"a">> \o Hash8 \o <<".">> \o Hash8 \o DotDll,
      <<"a">> \o Hash8 \o <<".">>,
      <<"g", ".", "g">> }

\* The number of installed files the manifests of a catalog list.
Installed(cat) ==
    Cardinality({ pf \in (DOMAIN cat) \X CatalogPaths : pf[2] \in cat[pf[1]] })

\* The catalogs write_licenses is exercised on: any of the packages may have
\* no manifest, and any may install any of the files.
Catalogs ==
    { cat \in UNION { [P -> SUBSET CatalogPaths] : P \in SUBSET PkgNames } :
        Installed(cat) <= MaxInstalled }

\* The environments the whole command is run in: any of the packages may have
\* no manifest; ocp and vtk both install "l/a.g", hdf5 installs "a.dll".
Installs(name) ==
    IF name = PkgHdf5 THEN {<<"a">> \o DotDll} ELSE {<<"l", "/", "a", ".", "g">>}

RunCatalogs == { [p \in P |-> Installs(p)] : P \in SUBSET PkgNames }

AddedSets == { A \in SUBSET AddedPaths : Cardinality(A) <= MaxAdded }

Systems == {"Linux", "Darwin", "Windows", "Java"}

\* The orders in which a directory listing may enumerate the members of S.
Orders(S) ==
    { f \in [1..Cardinality(S) -> S] : \A i, j \in 1..Cardinality(S) : f[i] = f[j] => i = j }

-----------------------------------------------------------------------------
(* bdist_wheel_repaired.run *)

BadWhlName == "ocp_vtk-7.5.1-cp39-cp39-linux_x86_64.whl"

ManylinuxWhlName == "ocp_vtk-7.5.1-cp39-cp39-manylinux_2_31_x86_64.whl"

\* The members of the wheel super().run() builds.
BadWhlFiles == {<<"OCP.so">>, <<"vtkmodules/__init__.py">>}

LicensesBundled == <<"LICENSES_bundled.txt">>

always_pkgs == <<PkgOcp, PkgVtk>>

Header ==
    << Line("This wheel distribution bundles a number of libraries that", "", <<>>, <<>>, 0, 0),
       Line("are compatibly licensed.  We list them here.", "", <<>>, <<>>, 0, 0) >>

Absent == [exists |-> FALSE, wheels |-> <<>>]

NoFile == [exists |-> FALSE, lines |-> <<>>]

\* The one wheel path of a directory holding exactly one wheel.
TheWheel(wheels) == CHOOSE w \in DOMAIN wheels : TRUE

InitRun ==
    /\ pc = "start"
    /\ catalog \in RunCatalogs
    /\ system \in Systems
    /\ dist_files = <<>>
    /\ dist_dir = <<>>
    /\ out_dir = Absent
    /\ added_files = {}
    /\ licenses_txt = NoFile
    /\ bundled_pkgs = <<>>
    /\ not_found = <<>>
    /\ error = "none"

UnmangleIdle ==
    /\ n = <<>>
    /\ u = None
    /\ uu = None
    /\ upc = "idle"

RunIdle ==
    /\ pc = "idle"
    /\ catalog = <<>>
    /\ system = "Linux"
    /\ dist_files = <<>>
    /\ dist_dir = <<>>
    /\ out_dir = Absent
    /\ added_files = {}
    /\ licenses_txt = NoFile
    /\ bundled_pkgs = <<>>
    /\ not_found = <<>>
    /\ error = "none"

\* super().run(): one wheel is built into dist_dir and recorded in dist_files.
SuperRun ==
    /\ pc = "start"
    /\ dist_dir' = (BadWhlName :> BadWhlFiles)
    /\ dist_files' = <<[command |-> "bdist_wheel", pyversion |-> "3.9",
                        path |-> <<"dist", BadWhlName>>]>>
    /\ pc' = "built"
    /\ UNCHANGED <<catalog, system, out_dir, added_files, licenses_txt,
                   bundled_pkgs, not_found, error>>

\* One of repair_wheel_linux/macos/windows: two subprocess.check_call, the
\* second of which writes the repaired wheel, named name, into out_dir.
RepairWheel(name) ==
    /\ pc = "built"
    /\ \/ /\ pc' = "failed"
          /\ error' = "CalledProcessError"
          /\ UNCHANGED out_dir
       \/ \E A \in AddedSets :
            /\ out_dir' = [exists |-> TRUE,
                           wheels |-> (name :> (dist_dir[dist_files[1].path[2]] \cup A))]
            /\ pc' = "repaired"
            /\ UNCHANGED error
    /\ UNCHANGED <<catalog, system, dist_files, dist_dir, added_files, licenses_txt,
                   bundled_pkgs, not_found>>

RepairLinux == system = "Linux" /\ RepairWheel(ManylinuxWhlName)

RepairMacos == system = "Darwin" /\ RepairWheel(dist_files[1].path[2])

RepairWindows == system = "Windows" /\ RepairWheel(dist_files[1].path[2])

\* raise Exception(f"unsupported system {system!r}")
RepairUnsupported ==
    /\ pc = "built"
    /\ system \notin {"Linux", "Darwin", "Windows"}
    /\ pc' = "failed"
    /\ error' = "unsupported system"
    /\ UNCHANGED <<catalog, system, dist_files, dist_dir, out_dir, added_files,
                   licenses_txt, bundled_pkgs, not_found>>

\* Lines 107-111 and add_licenses_bundled: the added files are the members of
\* the repaired wheel the unrepaired one does not have; the report is written
\* to LICENSES_bundled.txt, and the file is appended to the repaired wheel
\* when write_licenses returned.
AddLicensesBundled ==
    /\ pc = "repaired"
    /\ \E metas \in Orders(DOMAIN catalog) :
      \E repaired_whl \in {TheWheel(out_dir.wheels)} :
      \E added \in {out_dir.wheels[repaired_whl] \ dist_dir[dist_files[1].path[2]]} :
      \E r \in {write_licenses(catalog, metas, always_pkgs, added, Header)} :
            /\ added_files' = added
            /\ licenses_txt' = [exists |-> TRUE, lines |-> r.out]
            /\ bundled_pkgs' = r.bundled_pkgs
            /\ not_found' = r.not_found
            /\ error' = r.raised
            /\ IF r.raised = "none"
               THEN /\ out_dir' = [out_dir EXCEPT !.wheels[repaired_whl] = @ \cup {LicensesBundled}]
                    /\ pc' = "licensed"
               ELSE /\ out_dir' = out_dir
                    /\ pc' = "failed"
    /\ UNCHANGED <<catalog, system, dist_files, dist_dir>>

\* ReplaceWheel without os.unlink(bad_whl).
ReplaceWheel_keep_bad ==
    /\ pc = "licensed"
    /\ LET repaired_whl == TheWheel(out_dir.wheels)
       IN  /\ dist_dir' = [w \in DOMAIN dist_dir \cup {repaired_whl} |->
                             IF w = repaired_whl THEN out_dir.wheels[repaired_whl]
                             ELSE dist_dir[w]]
           /\ dist_files' = [dist_files EXCEPT ![1].path = <<"dist", repaired_whl>>]
    /\ out_dir' = Absent
    /\ pc' = "done"
    /\ UNCHANGED <<catalog, system, added_files, licenses_txt, bundled_pkgs,
                   not_found, error>>

\* Lines 115-119: delete the unrepaired wheel, move the repaired one into
\* dist_dir, remove out_dir, record the new path.
ReplaceWheel ==
    /\ pc = "licensed"
    /\ LET bad_whl == dist_files[1].path[2]
           repaired_whl == TheWheel(out_dir.wheels)
       IN  /\ dist_dir' = [w \in (DOMAIN dist_dir \ {bad_whl}) \cup {repaired_whl} |->
                             IF w = repaired_whl THEN out_dir.wheels[repaired_whl]
                             ELSE dist_dir[w]]
           /\ dist_files' = [dist_files EXCEPT ![1].path = <<"dist", repaired_whl>>]
    /\ out_dir' = Absent
    /\ pc' = "done"
    /\ UNCHANGED <<catalog, system, added_files, licenses_txt, bundled_pkgs,
                   not_found, error>>

Init == InitRun /\ UnmangleIdle

Next ==
    \/ SuperRun /\ UNCHANGED unmangleVars
    \/ RepairLinux /\ UNCHANGED unmangleVars
    \/ RepairMacos /\ UNCHANGED unmangleVars
    \/ RepairWindows /\ UNCHANGED unmangleVars
    \/ RepairUnsupported /\ UNCHANGED unmangleVars
    \/ AddLicensesBundled /\ UNCHANGED unmangleVars
    \/ ReplaceWheel /\ UNCHANGED unmangleVars

Spec == Init /\ [][Next]_vars

\* write_licenses called as add_licenses_bundled calls it, the header lines
\* already written to the open file.
InitResolve ==
    /\ pc = "call"
    /\ catalog \in Catalogs
    /\ system = "Linux"
    /\ dist_files = <<>>
    /\ dist_dir = <<>>
    /\ out_dir = Absent
    /\ added_files \in AddedSets
    /\ licenses_txt = [exists |-> TRUE, lines |-> Header]
    /\ bundled_pkgs = <<>>
    /\ not_found = <<>>
    /\ error = "none"

WriteLicenses ==
    /\ pc = "call"
    /\ \E metas \in Orders(DOMAIN catalog) :
       \E r \in {write_licenses(catalog, metas, always_pkgs, added_files, licenses_txt.lines)} :
            /\ licenses_txt' = [licenses_txt EXCEPT !.lines = r.out]
            /\ bundled_pkgs' = r.bundled_pkgs
            /\ not_found' = r.not_found
            /\ error' = r.raised
            /\ pc' = IF r.raised = "none" THEN "returned" ELSE "raised"
    /\ UNCHANGED <<catalog, system, dist_files, dist_dir, out_dir, added_files>>

NextResolve == WriteLicenses /\ UNCHANGED unmangleVars

InitR == InitResolve /\ UnmangleIdle

SpecResolve == InitR /\ [][NextResolve]_vars

NextUnmangle ==
    \/ Unmangle /\ UNCHANGED runVars
    \/ UnmangleAgain /\ UNCHANGED runVars

InitU == InitUnmangle /\ RunIdle

SpecUnmangle == InitU /\ [][NextUnmangle]_vars

-----------------------------------------------------------------------------
(* The shapes of mangled names, as the claims state them *)

AllHex(s, from, to) == \A k \in from..to : s[k] \in HexChars

\* s is <stem>-<hash>.dll with s[1..i] the non-empty stem and a hash of 8 or
\* more hexadecimal characters.
DllMangledAt(s, i) ==
    /\ i >= 1
    /\ Len(s) >= i + 1 + 8 + 4
    /\ s[i + 1] = "-"
    /\ AllHex(s, i + 2, Len(s) - 4)
    /\ SubSeq(s, Len(s) - 3, Len(s)) = <<".", "d", "l", "l">>

DllMangled(s) == \E i \in 1..Len(s) : DllMangledAt(s, i)

\* s holds a hash fragment: "-", 8 or more hexadecimal characters, then ".".
HasHashFragment(s) ==
    \E i \in 1..Len(s) : \E j \in (i + 8)..(Len(s) - 1) :
        s[i] = "-" /\ AllHex(s, i + 1, j) /\ s[j + 1] = "."

\* s is <firstsegment>-<hash><rest> with s[1..i] the non-empty, dot-free first
\* segment, a hash of 8 or more hexadecimal characters s[i+2..j], and a rest
\* s[j+1..] that starts with "." and has at least one more character.
GenericMangledAt(s, i, j) ==
    /\ i >= 1
    /\ j >= i + 1 + 8
    /\ Len(s) >= j + 2
    /\ \A k \in 1..i : s[k] # "."
    /\ s[i + 1] = "-"
    /\ AllHex(s, i + 2, j)
    /\ s[j + 1] = "."

\* m is c = <firstsegment><rest> with "-" and a hash of 8 or more hexadecimal
\* characters inserted after the first segment (non-empty and dot-free; the
\* rest starts with ".").
MangledFrom(c, m) ==
    \E i \in 1..(Len(c) - 1) :
        /\ \A k \in 1..i : c[k] # "."
        /\ c[i + 1] = "."
        /\ Len(m) >= Len(c) + 1 + 8
        /\ SubSeq(m, 1, i) = SubSeq(c, 1, i)
        /\ m[i + 1] = "-"
        /\ AllHex(m, i + 2, i + Len(m) - Len(c))
        /\ SubSeq(m, i + 1 + Len(m) - Len(c), Len(m)) = SubSeq(c, i + 1, Len(c))

\* The rest of c, from its first "." on.
RestOf(c) == SubSeq(c, Min({ k \in 1..Len(c) : c[k] = "." }), Len(c))

-----------------------------------------------------------------------------
(* Claims about try_unmangle, under SpecUnmangle *)

\* C3: for every name <stem>-<hash>.dll with a non-empty stem and a hash of 8
\* or more hexadecimal characters, try_unmangle returns exactly <stem>.dll.
C3_UnmangleDllExact ==
    upc # "start" =>
        \A i \in 1..Len(n) :
            DllMangledAt(n, i) => u = SubSeq(n, 1, i) \o <<".", "d", "l", "l">>

\* try_unmangle was applied to a-deadbeef-deadbeef.dll, whose stem itself ends
\* in a hash, and returned a-deadbeef.dll.
C3_Witness ==
    /\ upc = "unmangled"
    /\ n = <<"a">> \o Hash8 \o Hash8 \o DotDll
    /\ DllMangledAt(n, 10)
    /\ u = <<"a">> \o Hash8 \o DotDll

\* C4 as stated: whenever try_unmangle returned a name u, try_unmangle(u)
\* reports no unmangling.
C4_Idempotent == upc = "again" => uu = None

\* C4 as amended: when the name u that try_unmangle returned holds no further
\* hash fragment, try_unmangle(u) reports no unmangling.
C4_IdempotentOnSingleFragment ==
    (upc = "again" /\ ~HasHashFragment(u)) => uu = None

\* try_unmangle returned vtk-style a.dll for a-deadbeef.dll and the second
\* application reported no unmangling.
C4_Witness ==
    /\ upc = "again"
    /\ n = <<"a">> \o Hash8 \o DotDll
    /\ u = <<"a">> \o DotDll
    /\ ~HasHashFragment(u)
    /\ uu = None

-----------------------------------------------------------------------------
(* Claims about write_licenses, under SpecResolve *)

Always == {PkgOcp, PkgVtk}

\* The Filename Index, from the catalog: the packages whose installed files
\* include one with this base name.
InstallersOf(base) ==
    { p \in DOMAIN catalog : \E f \in catalog[p] : basename(f) = base }

\* The packages that have a section in the report.
ReportedPkgs ==
    { licenses_txt.lines[k].pkg :
        k \in { j \in 1..Len(licenses_txt.lines) :
                  licenses_txt.lines[j].text = "Conda package: " } }

Bundled == ToSet(bundled_pkgs)

NotFound == ToSet(not_found)

\* C1: when the catalog holds a manifest for every always-include package,
\* write_licenses returns and the report has a section for each of them,
\* whatever the added files are.
C1_AlwaysReported ==
    (pc # "call" /\ Always \subseteq DOMAIN catalog) =>
        pc = "returned" /\ Always \subseteq ReportedPkgs

\* write_licenses returned on an empty Added-File Set with both always-include
\* packages reported.
C1_Witness ==
    /\ pc = "returned"
    /\ added_files = {}
    /\ ReportedPkgs = Always

\* C2: every package that installs a file with the base name of an added file
\* is in the resolver's output package set.
C2_ExactMatchSuperset ==
    pc # "call" =>
        \A fn \in added_files : InstallersOf(basename(fn)) \subseteq Bundled

\* Two packages install a file with the base name of an added file and both
\* are in the output.
C2_Witness ==
    /\ pc = "returned"
    /\ \E fn \in added_files :
         /\ Cardinality(InstallersOf(basename(fn))) = 2
         /\ InstallersOf(basename(fn)) \subseteq Bundled

\* The base names of the files the catalog's packages install.
CatalogBases == { basename(f) : f \in UNION { catalog[p] : p \in DOMAIN catalog } }

\* C5 as stated: an added file whose base name is a catalog base name with a
\* hash inserted after the first segment, and is not itself in the index,
\* brings every package that installs that catalog file into the output.
C5_GenericAttributed ==
    pc # "call" =>
        \A fn \in added_files : \A c \in CatalogBases :
            (MangledFrom(c, basename(fn)) /\ InstallersOf(basename(fn)) = {})
                => InstallersOf(c) \subseteq Bundled

\* C5 as amended: the same, when the rest has a character after its "." and
\* the added name is not of the DLL shape <stem>-<hash>.dll, or the rest is
\* exactly ".dll".
C5_GenericAttributedUnlessDll ==
    pc # "call" =>
        \A fn \in added_files : \A c \in CatalogBases :
            ( /\ MangledFrom(c, basename(fn))
              /\ InstallersOf(basename(fn)) = {}
              /\ Len(RestOf(c)) >= 2
              /\ ~DllMangled(basename(fn)) \/ RestOf(c) = <<".", "d", "l", "l">> )
                => InstallersOf(c) \subseteq Bundled

\* "x/a-deadbeef.g" was added, a package installs "l/a.g", and it is in the
\* output.
C5_Witness ==
    /\ pc = "returned"
    /\ <<"x", "/", "a">> \o Hash8 \o <<".", "g">> \in added_files
    /\ MangledFrom(<<"a", ".", "g">>, <<"a">> \o Hash8 \o <<".", "g">>)
    /\ InstallersOf(<<"a", ".", "g">>) # {}
    /\ InstallersOf(<<"a", ".", "g">>) \subseteq Bundled
    /\ not_found = <<>>

\* The packages an added file is attributed to: those of its base name when
\* the index has it, else those of its unmangled name.
Contribution(fn) ==
    IF InstallersOf(basename(fn)) # {} THEN InstallersOf(basename(fn))
    ELSE IF try_unmangle(basename(fn)) # None
         THEN InstallersOf(try_unmangle(basename(fn)))
         ELSE {}

\* C7: the added files attributed to no package are exactly those recorded in
\* not_found, the output set is what the other added files contribute,
\* write_licenses raises only when an always-include package has no manifest,
\* and when it returns the report covers the always-include and attributed
\* packages.
C7_UnattributedNonFatal ==
    pc # "call" =>
        /\ NotFound = { fn \in added_files : Contribution(fn) = {} }
        /\ Bundled = UNION { Contribution(fn) : fn \in added_files }
        /\ pc = "raised" => ~(Always \subseteq DOMAIN catalog)
        /\ pc = "returned" => ReportedPkgs = Always \cup Bundled

\* An unattributed file was recorded and a file sorted after it was still
\* attributed, and the report was produced.
C7_Witness ==
    /\ pc = "returned"
    /\ \E f \in NotFound : \E g \in added_files :
         StrLess(f, g) /\ Contribution(g) # {} /\ Contribution(g) \subseteq ReportedPkgs

\* The package names of the report's sections, in the order of the report.
RECURSIVE SectionNames(_)
SectionNames(lines) ==
    IF lines = <<>> THEN <<>>
    ELSE (IF Head(lines).text = "Conda package: " THEN <<Head(lines).pkg>> ELSE <<>>)
         \o SectionNames(Tail(lines))

\* The license files of package p, in the order of the report.
RECURSIVE SectionFiles(_, _)
SectionFiles(lines, p) ==
    IF lines = <<>> THEN <<>>
    ELSE (IF Head(lines).text = "Contents of " /\ Head(lines).pkg = p
          THEN <<Head(lines).file>> ELSE <<>>)
         \o SectionFiles(Tail(lines), p)

Ascending(q) == \A k \in 1..(Len(q) - 1) : StrLess(q[k], q[k + 1])

\* C8: the report does not depend on the order in which the manifests are
\* enumerated (whatever the order was, it is the report that the enumeration
\* in name order gives), each
\* reported package appears once, in ascending name order, and each package's
\* license files are in ascending path order.
C8_Deterministic ==
    pc # "call" =>
        /\ licenses_txt.lines =
             write_licenses(catalog, sorted(DOMAIN catalog), always_pkgs,
                            added_files, Header).out
        /\ Ascending(SectionNames(licenses_txt.lines))
        /\ \A p \in ReportedPkgs :
             /\ Ascending(SectionFiles(licenses_txt.lines, p))
             /\ ToSet(SectionFiles(licenses_txt.lines, p)) = LicenseGlob(p)

\* A report of three packages, one of them with three license files, from a
\* catalog two of whose packages install a file of the same base name.
C8_Witness ==
    /\ pc = "returned"
    /\ Len(SectionNames(licenses_txt.lines)) = 3
    /\ Len(SectionFiles(licenses_txt.lines, PkgVtk)) = 3
    /\ \E b \in CatalogBases : Cardinality(InstallersOf(b)) = 2

\* What C9 says of an added file whose first unmangling is the name d.
LookedUpOnly(fn, d) ==
    IF InstallersOf(d) # {}
    THEN InstallersOf(d) \subseteq Bundled /\ fn \notin NotFound
    ELSE fn \in NotFound

\* C9: an added file whose base name is not in the index and has the DLL shape
\* <stem>-<hash>.dll is looked up as <stem>.dll and as nothing else, also when
\* the name has the generic shape too; the generic unmangling is looked up
\* only for a name that has not the DLL shape.
C9_DllPatternFirst ==
    pc # "call" =>
        \A fn \in added_files :
            LET nm == basename(fn)
            IN  InstallersOf(nm) = {} =>
                  /\ \A i \in 1..Len(nm) :
                       DllMangledAt(nm, i) =>
                           LookedUpOnly(fn, SubSeq(nm, 1, i) \o <<".", "d", "l", "l">>)
                  /\ ~DllMangled(nm) =>
                       \A i, j \in 1..Len(nm) :
                           GenericMangledAt(nm, i, j) =>
                               LookedUpOnly(fn, SubSeq(nm, 1, i) \o SubSeq(nm, j + 1, Len(nm)))

\* "a-deadbeef.-deadbeef.dll" has both shapes; the catalog installs the name
\* the generic pattern would give, "a.-deadbeef.dll", and not the name the DLL
\* pattern gives, and the file is left unattributed.
C9_Witness ==
    /\ pc = "returned"
    /\ LET nm == <<"a">> \o Hash8 \o <<".">> \o Hash8 \o DotDll
       IN  /\ nm \in added_files
           /\ DllMangledAt(nm, 11)
           /\ GenericMangledAt(nm, 1, 10)
           /\ InstallersOf(<<"a", ".">> \o Hash8 \o DotDll) # {}
           /\ InstallersOf(<<"a">> \o Hash8 \o <<".", ".", "d", "l", "l">>) = {}
           /\ nm \in NotFound

-----------------------------------------------------------------------------
(* Claims about bdist_wheel_repaired.run, under Spec *)

\* The repaired wheel in out_dir holds LICENSES_bundled.txt.
LicensesInWheel ==
    out_dir.exists /\ LicensesBundled \in out_dir.wheels[TheWheel(out_dir.wheels)]

\* C6: when an always-include package has no manifest, add_licenses_bundled
\* ends with an error, no package section has been written to the report
\* before the failure, and LICENSES_bundled.txt is not added to the wheel.
C6_MissingManifestAtomic ==
    (licenses_txt.exists /\ ~(Always \subseteq DOMAIN catalog)) =>
        /\ pc = "failed"
        /\ error = "KeyError"
        /\ ReportedPkgs = {}
        /\ ~LicensesInWheel

\* On completion dist_dir holds one wheel, the repaired one with
\* LICENSES_bundled.txt in it, out_dir is gone and dist_files[0] names the
\* wheel; after a failure the unrepaired wheel and dist_files are as
\* super().run() left them.
C10_Outcome ==
    /\ pc = "done" =>
         /\ error = "none"
         /\ Cardinality(DOMAIN dist_dir) = 1
         /\ \A w \in DOMAIN dist_dir :
              /\ dist_dir[w] = BadWhlFiles \cup added_files \cup {LicensesBundled}
              /\ Len(dist_files) = 1
              /\ dist_files[1].path = <<"dist", w>>
              /\ w = IF system = "Linux" THEN ManylinuxWhlName ELSE BadWhlName
         /\ ~out_dir.exists
    /\ pc = "failed" =>
         /\ error \in {"unsupported system", "CalledProcessError", "KeyError"}
         /\ DOMAIN dist_dir = {BadWhlName}
         /\ dist_dir[BadWhlName] = BadWhlFiles
         /\ Len(dist_files) = 1
         /\ dist_files[1].path = <<"dist", BadWhlName>>

\* A step that deletes or changes the unrepaired wheel, or changes the
\* recorded dist_files, is taken only when repair and license addition have
\* both succeeded.
C10_Step ==
    ( \/ /\ BadWhlName \in DOMAIN dist_dir
         /\ \/ BadWhlName \notin DOMAIN dist_dir'
            \/ dist_dir'[BadWhlName] # dist_dir[BadWhlName]
      \/ pc # "start" /\ dist_files' # dist_files )
    => (pc = "licensed" /\ error = "none" /\ LicensesInWheel /\ pc' = "done")

\* C10: the unrepaired wheel is replaced only after repair and license
\* addition have both succeeded, with the outcome above on completion and on
\* failure.
C10_ReplacedOnlyAfterSuccess == [](C10_Outcome) /\ [][C10_Step]_vars

\* On Linux the run completed: dist_dir holds the manylinux wheel alone, with
\* a bundled file and LICENSES_bundled.txt in it.
C10_Witness ==
    /\ pc = "done"
    /\ system = "Linux"
    /\ DOMAIN dist_dir = {ManylinuxWhlName}
    /\ added_files # {}
    /\ LicensesBundled \in dist_dir[ManylinuxWhlName]
    /\ dist_files[1].path = <<"dist", ManylinuxWhlName>>

====
